---- MODULE Spec2Model ----
(***************************************************************************)
(* Reassembly of Sutron SBD messages (glacio::sutron::message) and the     *)
(* heartbeat iterator built on it (glacio::atlas::heartbeat::ReadSbd).     *)
(*                                                                         *)
(* A payload is a sequence of one-character strings.  Packet::from_str is  *)
(* modelled by a scanner that does what SELF_TIMED_EXTENDED_REGEX does,    *)
(* Message::add by its match arms in source order, ReadSbd::next by its    *)
(* loop.  The heartbeat body grammar is scaled down: see HeartbeatNew.     *)
(*                                                                         *)
(* Then the fuel accounting of glacio::atlas::efoy::Efoy, and the replay   *)
(* of glacio-http's Status::new that sorts the heartbeats and feeds their  *)
(* readings to one Efoy per fuel cell.                                     *)
(***************************************************************************)
EXTENDS Integers, Sequences, FiniteSets, TLC

\* ---------------------------------------------------------------- bounds
MaxTotal == 2    \* total_bytes fields 1..MaxTotal, start_byte fields 0..MaxTotal
MaxPackets == 3  \* payloads added to one Message
MaxMessages == 3 \* transmissions the message store holds at most

U8Max == 255

\* ------------------------------------------------------------- alphabet
Digits == {"0", "1", "2", "3", "4", "5", "6", "7", "8", "9"}

DigitVal(c) ==
    CASE c = "0" -> 0 [] c = "1" -> 1 [] c = "2" -> 2 [] c = "3" -> 3
      [] c = "4" -> 4 [] c = "5" -> 5 [] c = "6" -> 6 [] c = "7" -> 7
      [] c = "8" -> 8 [] c = "9" -> 9

DigitChar(n) ==
    CASE n = 0 -> "0" [] n = 1 -> "1" [] n = 2 -> "2" [] n = 3 -> "3"
      [] n = 4 -> "4" [] n = 5 -> "5" [] n = 6 -> "6" [] n = 7 -> "7"
      [] n = 8 -> "8" [] n = 9 -> "9"

\* The symbols a data field is made of: "2" and "3" open a heartbeat body of
\* that version, "x" is any other byte.
DataChars == {"2", "3", "x"}

\* The data of one payload: nothing, or one symbol.
DataStrings == {<<>>} \cup {<<c>> : c \in DataChars}

\* The ids the data logger numbers its extended messages with.
Ids == {1, 2}

\* str::parse of a \d+ capture: the decimal value of the digits.
RECURSIVE ParseDigits(_)
ParseDigits(ds) ==
    IF ds = <<>> THEN 0
    ELSE 10 * ParseDigits(SubSeq(ds, 1, Len(ds) - 1)) + DigitVal(ds[Len(ds)])

\* What the data logger writes for a number: its decimal digits.
RECURSIVE Decimal(_)
Decimal(n) ==
    IF n < 10 THEN <<DigitChar(n)>>
    ELSE Append(Decimal(n \div 10), DigitChar(n % 10))

\* ---------------------------------------------------------------- values
None == [tag |-> "None"]
Some(v) == [tag |-> "Some", value |-> v]
IsSome(o) == o.tag = "Some"

Unstarted == [state |-> "Unstarted"]
Incomplete(id, total_bytes, data) ==
    [state |-> "Incomplete", id |-> id, total_bytes |-> total_bytes, data |-> data]
Complete(data) == [state |-> "Complete", data |-> data]

SelfTimed(data) == [type |-> "SelfTimed", data |-> data]
SelfTimedExtended(id, start_byte, total_bytes, data) ==
    [type |-> "SelfTimedExtended", id |-> id, start_byte |-> start_byte,
     total_bytes |-> total_bytes, data |-> data]
ForcedTransmission(data) == [type |-> "ForcedTransmission", data |-> data]
ForcedTransmissionExtended(data) == [type |-> "ForcedTransmissionExtended", data |-> data]

Ok(v) == [tag |-> "Ok", value |-> v]
Err(e) == [tag |-> "Err", err |-> e]
Panic == [tag |-> "Panic"]

ByteMismatch(received, start_byte) ==
    [kind |-> "ByteMismatch", received |-> received, start_byte |-> start_byte]
IdMismatch(packet, message) ==
    [kind |-> "IdMismatch", packet |-> packet, message |-> message]
InvalidFormat(s) == [kind |-> "InvalidFormat", s |-> s]
MessageComplete == [kind |-> "MessageComplete"]
MissingTotalBytes == [kind |-> "MissingTotalBytes"]
NonExtendedContinuationPacket == [kind |-> "NonExtendedContinuationPacket"]
NonzeroStartByte == [kind |-> "NonzeroStartByte"]
ParseInt == [kind |-> "ParseInt"]
UnsupportedPacketType(c) == [kind |-> "UnsupportedPacketType", c |-> c]

\* ------------------------------------------------ Packet::from_str
\* The index of the first symbol at or after i that is no digit (Len(s) + 1
\* when the digits run to the end): the extent of a greedy \d+.
RECURSIVE DigitRun(_, _)
DigitRun(s, i) ==
    IF i > Len(s) \/ s[i] \notin Digits THEN i ELSE DigitRun(s, i + 1)

At(s, i, c) == i <= Len(s) /\ s[i] = c

\* SELF_TIMED_EXTENDED_REGEX.captures(s):
\*   ^1,(?P<id>\d+),(?P<start_byte>\d+)(,(?P<total_bytes>\d+))?:(?P<data>.*)$
\* A digit run can only be followed by "," or ":", so the match is unique.
RegexCaptures(s) ==
    LET i1 == DigitRun(s, 3)
        i2 == DigitRun(s, i1 + 1)
        i3 == DigitRun(s, i2 + 1)
    IN  IF ~(At(s, 1, "1") /\ At(s, 2, ",") /\ i1 > 3 /\ At(s, i1, ",") /\ i2 > i1 + 1)
        THEN None
        ELSE IF At(s, i2, ":")
        THEN Some([id |-> SubSeq(s, 3, i1 - 1),
                   start_byte |-> SubSeq(s, i1 + 1, i2 - 1),
                   total_bytes |-> None,
                   data |-> SubSeq(s, i2 + 1, Len(s))])
        ELSE IF At(s, i2, ",") /\ i3 > i2 + 1 /\ At(s, i3, ":")
        THEN Some([id |-> SubSeq(s, 3, i1 - 1),
                   start_byte |-> SubSeq(s, i1 + 1, i2 - 1),
                   total_bytes |-> Some(SubSeq(s, i2 + 1, i3 - 1)),
                   data |-> SubSeq(s, i3 + 1, Len(s))])
        ELSE None

\* The id is a u8: parse fails above 255.  start_byte and total_bytes are
\* usize, which no payload of the model overflows.
ParseU8Wraps(ds) == Ok(ParseDigits(ds) % (U8Max + 1))
ParseU8(ds) == IF ParseDigits(ds) > U8Max THEN Err(ParseInt) ELSE Ok(ParseDigits(ds))

Tail1(s) == SubSeq(s, 2, Len(s))

\* A payload is a str, and &s[0..1] slices it by bytes: the slice panics
\* when byte 1 is past the end or inside a character.  WideChars are the
\* symbols of the model that take more than one byte in UTF-8.
WideChars == {"U+00E9"}
Utf8Len(c) == IF c \in WideChars THEN 2 ELSE 1
IsCharBoundary1(s) == s # <<>> /\ Utf8Len(s[1]) = 1

PacketFromStr(s) ==
    IF ~IsCharBoundary1(s) THEN Panic          \* &s[0..1]
    ELSE IF s[1] = "0" THEN Ok(SelfTimed(Tail1(s)))
    ELSE IF s[1] = "1" THEN
        LET captures == RegexCaptures(s)
        IN  IF IsSome(captures)
            THEN LET c == captures.value
                     id == ParseU8(c.id)
                 IN  IF id.tag = "Err" THEN id
                     ELSE Ok(SelfTimedExtended(
                             id.value,
                             ParseDigits(c.start_byte),
                             IF IsSome(c.total_bytes)
                                 THEN Some(ParseDigits(c.total_bytes.value))
                                 ELSE None,
                             c.data))
            ELSE Err(InvalidFormat(s))
    ELSE IF s[1] = "8" THEN Ok(ForcedTransmission(Tail1(s)))
    ELSE IF s[1] = "9" THEN Ok(ForcedTransmissionExtended(Tail1(s)))
    ELSE Err(UnsupportedPacketType(s[1]))

\* ------------------------------------------------------ Message::add
IsComplete(message) == message.state = "Complete"

StringFromMessage(message) ==
    IF message.state = "Unstarted" THEN <<>> ELSE message.data

\* Incomplete + SelfTimedExtended (message.rs 192-225).
AddContinuationByteFirst(message, packet) ==
    IF packet.start_byte # Len(message.data)
    THEN Err(ByteMismatch(Len(message.data), packet.start_byte))
    ELSE IF packet.id # message.id
    THEN Err(IdMismatch(packet.id, message.id))
    ELSE LET data == message.data \o packet.data
         IN  IF Len(data) = message.total_bytes
             THEN Ok(Complete(data))
             ELSE Ok(Incomplete(message.id, message.total_bytes, data))
AddContinuationPrepends(message, packet) ==
    IF packet.id # message.id
    THEN Err(IdMismatch(packet.id, message.id))
    ELSE IF packet.start_byte # Len(message.data)
    THEN Err(ByteMismatch(Len(message.data), packet.start_byte))
    ELSE LET data == packet.data \o message.data
         IN  IF Len(data) = message.total_bytes
             THEN Ok(Complete(data))
             ELSE Ok(Incomplete(message.id, message.total_bytes, data))
AddContinuationNoByteCheck(message, packet) ==
    IF packet.id # message.id
    THEN Err(IdMismatch(packet.id, message.id))
    ELSE LET data == message.data \o packet.data
         IN  IF Len(data) = message.total_bytes
             THEN Ok(Complete(data))
             ELSE Ok(Incomplete(message.id, message.total_bytes, data))
AddContinuationAtLeast(message, packet) ==
    IF packet.id # message.id
    THEN Err(IdMismatch(packet.id, message.id))
    ELSE IF packet.start_byte # Len(message.data)
    THEN Err(ByteMismatch(Len(message.data), packet.start_byte))
    ELSE LET data == message.data \o packet.data
         IN  IF Len(data) >= message.total_bytes
             THEN Ok(Complete(data))
             ELSE Ok(Incomplete(message.id, message.total_bytes, data))
AddContinuationAdoptsTotal(message, packet) ==
    IF packet.id # message.id
    THEN Err(IdMismatch(packet.id, message.id))
    ELSE IF packet.start_byte # Len(message.data)
    THEN Err(ByteMismatch(Len(message.data), packet.start_byte))
    ELSE LET data == message.data \o packet.data
             total_bytes == IF IsSome(packet.total_bytes) THEN packet.total_bytes.value
                            ELSE message.total_bytes
         IN  IF Len(data) = total_bytes
             THEN Ok(Complete(data))
             ELSE Ok(Incomplete(message.id, total_bytes, data))
AddContinuation(message, packet) ==
    IF packet.id # message.id
    THEN Err(IdMismatch(packet.id, message.id))
    ELSE IF packet.start_byte # Len(message.data)
    THEN Err(ByteMismatch(Len(message.data), packet.start_byte))
    ELSE LET data == message.data \o packet.data
         IN  IF Len(data) = message.total_bytes
             THEN Ok(Complete(data))
             ELSE Ok(Incomplete(message.id, message.total_bytes, data))

\* Unstarted + SelfTimedExtended (message.rs 170-188).
AddStartTotalFirst(packet) ==
    IF ~IsSome(packet.total_bytes) THEN Err(MissingTotalBytes)
    ELSE IF packet.start_byte # 0 THEN Err(NonzeroStartByte)
    ELSE Ok(Incomplete(packet.id, packet.total_bytes.value, packet.data))

AddStartCompletes(packet) ==
    IF packet.start_byte # 0 THEN Err(NonzeroStartByte)
    ELSE IF IsSome(packet.total_bytes)
    THEN IF Len(packet.data) = packet.total_bytes.value
         THEN Ok(Complete(packet.data))
         ELSE Ok(Incomplete(packet.id, packet.total_bytes.value, packet.data))
    ELSE Err(MissingTotalBytes)

AddStart(packet) ==
    IF packet.start_byte # 0 THEN Err(NonzeroStartByte)
    ELSE IF IsSome(packet.total_bytes)
    THEN Ok(Incomplete(packet.id, packet.total_bytes.value, packet.data))
    ELSE Err(MissingTotalBytes)

\* The arms of the match, in source order.
AddPacketForcedFirst(message, packet) ==
    IF packet.type \in {"ForcedTransmission", "ForcedTransmissionExtended"}
        THEN Ok(Complete(packet.data))
    ELSE IF message.state = "Complete" THEN Err(MessageComplete)
    ELSE IF message.state = "Unstarted" /\ packet.type = "SelfTimed"
        THEN Ok(Complete(packet.data))
    ELSE IF message.state = "Unstarted" THEN AddStart(packet)
    ELSE IF packet.type = "SelfTimed" THEN Err(NonExtendedContinuationPacket)
    ELSE AddContinuation(message, packet)
AddPacketForcedMerges(message, packet) ==
    IF message.state = "Unstarted" /\ packet.type = "SelfTimed"
        THEN Ok(Complete(packet.data))
    ELSE IF message.state = "Unstarted" /\ packet.type = "SelfTimedExtended"
        THEN AddStart(packet)
    ELSE IF message.state = "Incomplete" /\ packet.type = "SelfTimed"
        THEN Err(NonExtendedContinuationPacket)
    ELSE IF message.state = "Incomplete" /\ packet.type = "SelfTimedExtended"
        THEN AddContinuation(message, packet)
    ELSE IF message.state = "Complete" THEN Err(MessageComplete)
    ELSE Ok(Complete(StringFromMessage(message) \o packet.data))
AddPacketKeepType(message, packet) ==
    IF message.state = "Unstarted" /\ packet.type = "SelfTimed"
        THEN Ok(Complete(<<"0">> \o packet.data))
    ELSE IF message.state = "Unstarted" /\ packet.type = "SelfTimedExtended"
        THEN AddStart(packet)
    ELSE IF message.state = "Incomplete" /\ packet.type = "SelfTimed"
        THEN Err(NonExtendedContinuationPacket)
    ELSE IF message.state = "Incomplete" /\ packet.type = "SelfTimedExtended"
        THEN AddContinuation(message, packet)
    ELSE IF message.state = "Complete" THEN Err(MessageComplete)
    ELSE Ok(Complete(packet.data))
AddPacketSelfTimedRestarts(message, packet) ==
    IF message.state \in {"Unstarted", "Incomplete"} /\ packet.type = "SelfTimed"
        THEN Ok(Complete(packet.data))
    ELSE IF message.state = "Unstarted" /\ packet.type = "SelfTimedExtended"
        THEN AddStart(packet)
    ELSE IF message.state = "Incomplete" /\ packet.type = "SelfTimedExtended"
        THEN AddContinuation(message, packet)
    ELSE IF message.state = "Complete" THEN Err(MessageComplete)
    ELSE Ok(Complete(packet.data))

AddPacket(message, packet) ==
    IF message.state = "Unstarted" /\ packet.type = "SelfTimed"
        THEN Ok(Complete(packet.data))
    ELSE IF message.state = "Unstarted" /\ packet.type = "SelfTimedExtended"
        THEN AddStart(packet)
    ELSE IF message.state = "Incomplete" /\ packet.type = "SelfTimed"
        THEN Err(NonExtendedContinuationPacket)
    ELSE IF message.state = "Incomplete" /\ packet.type = "SelfTimedExtended"
        THEN AddContinuation(message, packet)
    ELSE IF message.state = "Complete" THEN Err(MessageComplete)
    ELSE IF packet.type = "ForcedTransmission" THEN Ok(Complete(packet.data))
    ELSE Ok(Complete(packet.data))             \* ForcedTransmissionExtended

\* payload.parse::<Packet>()? and then the match.
MessageAdd(message, payload) ==
    LET parsed == PacketFromStr(payload)
    IN  IF parsed.tag # "Ok" THEN parsed ELSE AddPacket(message, parsed.value)

\* ------------------------------------------------------------ payloads
\* What the data logger transmits (message.rs 48-83 and the packet table):
\* the type character, then the data, or the extended header and the data.
ExtendedPayload(id, start_byte, total_bytes, data) ==
    <<"1", ",">> \o Decimal(id) \o <<",">> \o Decimal(start_byte)
        \o (IF IsSome(total_bytes) THEN <<",">> \o Decimal(total_bytes.value) ELSE <<>>)
        \o <<":">> \o data

ExtendedPayloads ==
    {ExtendedPayload(id, start_byte, total_bytes, data) :
        id \in Ids, start_byte \in 0..MaxTotal,
        total_bytes \in {None} \cup {Some(n) : n \in 1..MaxTotal},
        data \in DataStrings}

SinglePayloads == {<<c>> \o data : c \in {"0", "8", "9"}, data \in DataStrings}

\* Payloads no packet grammar accepts, the empty payload, a payload that
\* opens with a two-byte character, and ids beyond u8: a first packet, and a
\* continuation packet whose id is that of message 1 modulo 256.
OddPayloads ==
    {<<>>, <<"x">>, <<"U+00E9">>, <<"1">>, <<"1", ",", "x">>,
     <<"1", ",", "1", ",", "0">>,
     ExtendedPayload(U8Max + 1, 0, Some(1), <<"3">>),
     ExtendedPayload(U8Max + 2, 1, None, <<"x">>)}

Payloads == SinglePayloads \cup ExtendedPayloads \cup OddPayloads

\* ------------------------------------------------------ Heartbeat::new
\* The body grammar RE, scaled down to its head: a body matches when it
\* opens with a version symbol (for ATHB<version>...), and the heartbeat
\* keeps that version and the datetime it was given.  Every failure of the
\* real decoder (RE mismatch, a field that does not parse) is HeartbeatFormat.
Versions == {2, 3}
\* No filter, and the filter of the crate's example, versions(&[3]).
VersionFilters == {{}, {3}}
VersionChars == {"2", "3"}

HeartbeatFormat(body) == [kind |-> "HeartbeatFormat", body |-> body]

HeartbeatNew(body, datetime) ==
    IF body # <<>> /\ body[1] \in VersionChars
    THEN Ok([version |-> DigitVal(body[1]), datetime |-> datetime])
    ELSE Err(HeartbeatFormat(body))

\* ------------------------------------------------------------- Efoy
\* Fuel figures are f32.  The model uses small whole numbers of litres,
\* which f32 holds exactly, so sums and differences are exact; a quotient is
\* kept as the exact ratio, and a division by zero gives what f32 gives.
MaxCartridges == 3  \* cartridges an Efoy is configured with
MaxCapacity == 2    \* capacities 0..MaxCapacity, readings 0..MaxCapacity + 1

\* The ATLAS EFOYs name their cartridges "1.1", "1.2", "2.1", "2.2".
EfoyNames == {"1.1", "1.2", "2.1"}
Capacities == 0..MaxCapacity
Readings == 0..(MaxCapacity + 1)

RECURSIVE Gcd(_, _)
Gcd(a, b) == IF b = 0 THEN a ELSE Gcd(b, a % b)

Abs(n) == IF n < 0 THEN 0 - n ELSE n

NaN == [tag |-> "NaN"]
Infinity(sign) == [tag |-> "Infinity", sign |-> sign]
Ratio(n, d) == [tag |-> "Ratio", num |-> n, den |-> d]

\* n / d in f32, for a divisor that is not negative.
F32Div(n, d) ==
    IF d = 0
    THEN IF n = 0 THEN NaN ELSE Infinity(IF n < 0 THEN -1 ELSE 1)
    ELSE LET g == Gcd(Abs(n), d) IN Ratio(n \div g, d \div g)

CartridgeName(name) == [kind |-> "CartridgeName", name |-> name]
DuplicateEfoyCartridge(name) == [kind |-> "DuplicateEfoyCartridge", name |-> name]
EmptyCartridge(name) == [kind |-> "EmptyCartridge", name |-> name]

\* What Efoy::process reads of an efoy::Heartbeat.
EfoyHeartbeat(cartridge, consumed) == [cartridge |-> cartridge, consumed |-> consumed]
\* A heartbeat names one of those cartridges or, as in tests::efoy_process,
\* the cartridge "3.1" that no Efoy is configured with.
HeartbeatNames == EfoyNames \cup {"3.1"}
EfoyHeartbeats == {EfoyHeartbeat(n, c) : n \in HeartbeatNames, c \in Readings}

CartridgeNew(name, capacity) ==
    [name |-> name, capacity |-> capacity, consumed |-> 0, emptied |-> FALSE]

CartridgeFuel(cartridge) == cartridge.capacity - cartridge.consumed

CartridgeFuelPercentageOfConsumed(cartridge) ==
    F32Div(100 * cartridge.consumed, cartridge.capacity)

CartridgeFuelPercentage(cartridge) ==
    F32Div(100 * CartridgeFuel(cartridge), cartridge.capacity)

CartridgeEmptyKeepsConsumed(cartridge) == [cartridge EXCEPT !.emptied = TRUE]

CartridgeEmptyUnmarked(cartridge) == [cartridge EXCEPT !.consumed = cartridge.capacity]

CartridgeEmpty(cartridge) ==
    [cartridge EXCEPT !.consumed = cartridge.capacity, !.emptied = TRUE]

EfoyNew == <<>>

\* self.cartridges.iter().find(|&cartridge| cartridge.name == name)
EfoyCartridge(cartridges, name) ==
    LET found == {i \in 1..Len(cartridges) : cartridges[i].name = name}
    IN  IF found = {} THEN None
        ELSE Some(cartridges[CHOOSE i \in found : \A j \in found : i <= j])

\* Each of the operations that take &mut self gives the cartridges the call
\* leaves behind and what the call returns.
EfoyAddCartridgeUnchecked(cartridges, name, capacity) ==
    [cartridges |-> Append(cartridges, CartridgeNew(name, capacity)), ret |-> Ok(<<>>)]

EfoyAddCartridge(cartridges, name, capacity) ==
    IF \E i \in 1..Len(cartridges) : cartridges[i].name = name
    THEN [cartridges |-> cartridges, ret |-> Err(DuplicateEfoyCartridge(name))]
    ELSE [cartridges |-> Append(cartridges, CartridgeNew(name, capacity)),
          ret |-> Ok(<<>>)]

EfoyFuel(cartridges, name) ==
    LET cartridge == EfoyCartridge(cartridges, name)
    IN  IF IsSome(cartridge) THEN Some(CartridgeFuel(cartridge.value)) ELSE None

EfoyFuelPercentage(cartridges, name) ==
    LET cartridge == EfoyCartridge(cartridges, name)
    IN  IF IsSome(cartridge) THEN Some(CartridgeFuelPercentage(cartridge.value)) ELSE None

\* The fold of total_fuel_percentage over the first n cartridges, from (0., 0.).
RECURSIVE EfoyFold(_, _)
EfoyFoldOverLive(cartridges, n) ==
    IF n = 0 THEN [fuel |-> 0, capacity |-> 0]
    ELSE LET acc == EfoyFold(cartridges, n - 1)
         IN  IF cartridges[n].emptied THEN acc
             ELSE [fuel |-> acc.fuel + CartridgeFuel(cartridges[n]),
                   capacity |-> acc.capacity + cartridges[n].capacity]

EfoyFold(cartridges, n) ==
    IF n = 0 THEN [fuel |-> 0, capacity |-> 0]
    ELSE LET acc == EfoyFold(cartridges, n - 1)
         IN  [fuel |-> acc.fuel + CartridgeFuel(cartridges[n]),
              capacity |-> acc.capacity + cartridges[n].capacity]

EfoyTotalFuel(cartridges) == EfoyFold(cartridges, Len(cartridges)).fuel

EfoyTotalFuelPercentage(cartridges) ==
    LET acc == EfoyFold(cartridges, Len(cartridges))
    IN  F32Div(100 * acc.fuel, acc.capacity)

\* for cartridge in self.cartridges.iter_mut() { .. }, from the i-th on.
RECURSIVE EfoyProcessLoop(_, _, _)
EfoyProcessLoopSparesFirst(cartridges, i, heartbeat) ==
    IF i > Len(cartridges) THEN [cartridges |-> cartridges, ret |-> Panic]
    ELSE IF cartridges[i].name = heartbeat.cartridge
    THEN [cartridges |-> [cartridges EXCEPT ![i].consumed = heartbeat.consumed],
          ret |-> Ok(<<>>)]
    ELSE EfoyProcessLoop(IF i = 1 THEN cartridges
                         ELSE [cartridges EXCEPT ![i] = CartridgeEmpty(cartridges[i])],
                         i + 1, heartbeat)

EfoyProcessLoopEmptiesLater(cartridges, i, heartbeat) ==
    IF i > Len(cartridges) THEN [cartridges |-> cartridges, ret |-> Panic]
    ELSE IF cartridges[i].name = heartbeat.cartridge
    THEN [cartridges |->
             [j \in 1..Len(cartridges) |->
                 IF j = i THEN [cartridges[j] EXCEPT !.consumed = heartbeat.consumed]
                 ELSE IF j > i THEN CartridgeEmpty(cartridges[j])
                 ELSE cartridges[j]],
          ret |-> Ok(<<>>)]
    ELSE EfoyProcessLoop([cartridges EXCEPT ![i] = CartridgeEmpty(cartridges[i])],
                         i + 1, heartbeat)

EfoyProcessLoop(cartridges, i, heartbeat) ==
    IF i > Len(cartridges) THEN [cartridges |-> cartridges, ret |-> Panic]  \* unreachable!()
    ELSE IF cartridges[i].name = heartbeat.cartridge
    THEN [cartridges |-> [cartridges EXCEPT ![i].consumed = heartbeat.consumed],
          ret |-> Ok(<<>>)]
    ELSE EfoyProcessLoop([cartridges EXCEPT ![i] = CartridgeEmpty(cartridges[i])],
                         i + 1, heartbeat)

EfoyProcessAdds(cartridges, heartbeat) ==
    LET cartridge == EfoyCartridge(cartridges, heartbeat.cartridge)
        i == CHOOSE j \in 1..Len(cartridges) : cartridges[j].name = heartbeat.cartridge
    IN  IF ~IsSome(cartridge)
        THEN [cartridges |-> cartridges, ret |-> Err(CartridgeName(heartbeat.cartridge))]
        ELSE IF cartridge.value.emptied
        THEN [cartridges |-> cartridges, ret |-> Err(EmptyCartridge(cartridge.value.name))]
        ELSE EfoyProcessLoop(cartridges, 1,
                 EfoyHeartbeat(heartbeat.cartridge,
                               cartridges[i].consumed + heartbeat.consumed))

EfoyProcessSetsFuel(cartridges, heartbeat) ==
    LET cartridge == EfoyCartridge(cartridges, heartbeat.cartridge)
    IN  IF ~IsSome(cartridge)
        THEN [cartridges |-> cartridges, ret |-> Err(CartridgeName(heartbeat.cartridge))]
        ELSE IF cartridge.value.emptied
        THEN [cartridges |-> cartridges, ret |-> Err(EmptyCartridge(cartridge.value.name))]
        ELSE EfoyProcessLoop(cartridges, 1,
                 EfoyHeartbeat(heartbeat.cartridge,
                               cartridge.value.capacity - heartbeat.consumed))

EfoyProcessLoopFirst(cartridges, heartbeat) ==
    LET cartridge == EfoyCartridge(cartridges, heartbeat.cartridge)
        after == EfoyProcessLoop(cartridges, 1, heartbeat)
    IN  IF ~IsSome(cartridge)
        THEN [cartridges |-> after.cartridges,
              ret |-> Err(CartridgeName(heartbeat.cartridge))]
        ELSE IF cartridge.value.emptied
        THEN [cartridges |-> after.cartridges,
              ret |-> Err(EmptyCartridge(cartridge.value.name))]
        ELSE after

EfoyProcessIgnoresEmptied(cartridges, heartbeat) ==
    LET cartridge == EfoyCartridge(cartridges, heartbeat.cartridge)
    IN  IF ~IsSome(cartridge)
        THEN [cartridges |-> cartridges, ret |-> Err(CartridgeName(heartbeat.cartridge))]
        ELSE EfoyProcessLoop(cartridges, 1, heartbeat)

EfoyProcessLoopSkipsFirst(cartridges, heartbeat) ==
    LET cartridge == EfoyCartridge(cartridges, heartbeat.cartridge)
    IN  IF ~IsSome(cartridge)
        THEN [cartridges |-> cartridges, ret |-> Err(CartridgeName(heartbeat.cartridge))]
        ELSE IF cartridge.value.emptied
        THEN [cartridges |-> cartridges, ret |-> Err(EmptyCartridge(cartridge.value.name))]
        ELSE EfoyProcessLoop(cartridges, 2, heartbeat)

EfoyProcess(cartridges, heartbeat) ==
    LET cartridge == EfoyCartridge(cartridges, heartbeat.cartridge)
    IN  IF ~IsSome(cartridge)
        THEN [cartridges |-> cartridges, ret |-> Err(CartridgeName(heartbeat.cartridge))]
        ELSE IF cartridge.value.emptied
        THEN [cartridges |-> cartridges, ret |-> Err(EmptyCartridge(cartridge.value.name))]
        ELSE EfoyProcessLoop(cartridges, 1, heartbeat)

\* --------------------------------------------- the status replay
\* glacio-http builds a Status from all the heartbeats of the source: it
\* sorts them and feeds the readings of each to one Efoy per fuel cell.
MaxHeartbeats == 2  \* heartbeats the source returns at most

\* The Efoys of a heartbeat, by id.
EfoyIds == {1, 2}

\* Config::efoy: an Efoy with the cartridges of the configuration, in order.
ConfigCartridges ==
    <<[name |-> "1.1", capacity |-> 2], [name |-> "1.2", capacity |-> 2]>>

RECURSIVE ConfigEfoyFrom(_, _)
ConfigEfoyFrom(cartridges, n) ==
    IF n = 0 THEN EfoyNew
    ELSE EfoyAddCartridge(ConfigEfoyFrom(cartridges, n - 1),
                          cartridges[n].name, cartridges[n].capacity).cartridges

ConfigEfoy == ConfigEfoyFrom(ConfigCartridges, Len(ConfigCartridges))

\* The readings a heartbeat carries for Efoy 1 and for Efoy 2.
StatusReadings ==
    [i \in EfoyIds |->
        IF i = 1
        THEN {EfoyHeartbeat("1.1", 1), EfoyHeartbeat("1.2", 0), EfoyHeartbeat("3.1", 0)}
        ELSE {EfoyHeartbeat("1.1", 0), EfoyHeartbeat("1.2", 1)}]

\* What the replay and the comparisons read of a Heartbeat.
StatusHeartbeats ==
    {[version |-> v, datetime |-> t, efoys |-> <<r1, r2>>] :
        v \in Versions, t \in 1..MaxHeartbeats,
        r1 \in StatusReadings[1], r2 \in StatusReadings[2]}

HeartbeatLists == UNION {[1..n -> StatusHeartbeats] : n \in 0..MaxHeartbeats}

Less == "Less"
Equal == "Equal"
Greater == "Greater"

\* Ord::cmp of two numbers.
Cmp(a, b) == IF a < b THEN Less ELSE IF a > b THEN Greater ELSE Equal

\* The place of a cartridge name in the order of str.
NameRank(name) ==
    IF name = "1.1" THEN 1 ELSE IF name = "1.2" THEN 2
    ELSE IF name = "2.1" THEN 3 ELSE 4

\* derive(PartialOrd) of efoy::Heartbeat: field by field, in declared order.
ReadingCmp(a, b) ==
    IF a.cartridge # b.cartridge
    THEN Cmp(NameRank(a.cartridge), NameRank(b.cartridge))
    ELSE Cmp(a.consumed, b.consumed)

\* impl PartialEq for Heartbeat
HeartbeatEq(a, b) == a.datetime = b.datetime

\* impl Ord for Heartbeat
HeartbeatCmp(a, b) == Cmp(a.datetime, b.datetime)

\* derive(PartialOrd) for Heartbeat: the fields in declared order, version
\* first, then datetime, then the rest.
HeartbeatPartialCmp(a, b) ==
    IF a.version # b.version THEN Some(Cmp(a.version, b.version))
    ELSE IF a.datetime # b.datetime THEN Some(Cmp(a.datetime, b.datetime))
    ELSE IF a.efoys[1] # b.efoys[1] THEN Some(ReadingCmp(a.efoys[1], b.efoys[1]))
    ELSE Some(ReadingCmp(a.efoys[2], b.efoys[2]))

\* a.lt(b) of PartialOrd, and Ord::cmp(a, b) == Less
HeartbeatLt(a, b) == HeartbeatPartialCmp(a, b) = Some(Less)
HeartbeatCmpLess(a, b) == HeartbeatCmp(a, b) = Less

\* The strict order a sort compares with: a.lt(b) or a.cmp(b) == Less.
IsLess(a, b, byLt) == IF byLt THEN HeartbeatLt(a, b) ELSE HeartbeatCmpLess(a, b)

\* A stable sort of hs under the strict order IsLess.
SortedBy(hs, byLt) ==
    LET n == Len(hs)
        perms == {p \in [1..n -> 1..n] : \A i, j \in 1..n : p[i] = p[j] => i = j}
        p == CHOOSE q \in perms :
                \A i, j \in 1..n :
                    i < j => /\ ~IsLess(hs[q[j]], hs[q[i]], byLt)
                             /\ ~IsLess(hs[q[i]], hs[q[j]], byLt) => q[i] < q[j]
    IN  [i \in 1..n |-> hs[p[i]]]

\* heartbeats.sort().  slice::sort asks for Ord and leaves the order
\* unspecified when the comparisons of the type disagree, as Ord::cmp and the
\* derived PartialOrd of Heartbeat do: the library's merge sort compares
\* with a.lt(b), a sort that compares with Ord::cmp is as legitimate.
SortOutcomes(hs) == {SortedBy(hs, byLt) : byLt \in BOOLEAN}

\* Error::Config of Config::heartbeats: no heartbeats found.
ConfigError == [kind |-> "Config"]

\* The loop of Timeseries::process over the Efoys of one heartbeat, from the
\* i-th on: efoy.process(heartbeat)? for each.  It gives the Efoys it leaves
\* behind, the process calls it made, and what Timeseries::process returns.
RECURSIVE ProcessEfoys(_, _, _, _)
ProcessEfoysGoesOn(engines, calls, heartbeat, i) ==
    IF i > Len(engines) THEN [efoys |-> engines, calls |-> calls, ret |-> Ok(<<>>)]
    ELSE LET done == EfoyProcess(engines[i], heartbeat.efoys[i])
             made == Append(calls, [efoy |-> i, datetime |-> heartbeat.datetime,
                                    ret |-> done.ret])
         IN  ProcessEfoys([engines EXCEPT ![i] = done.cartridges], made, heartbeat, i + 1)

ProcessEfoys(engines, calls, heartbeat, i) ==
    IF i > Len(engines) THEN [efoys |-> engines, calls |-> calls, ret |-> Ok(<<>>)]
    ELSE LET done == EfoyProcess(engines[i], heartbeat.efoys[i])
             made == Append(calls, [efoy |-> i, datetime |-> heartbeat.datetime,
                                    ret |-> done.ret])
         IN  IF done.ret.tag # "Ok"
             THEN [efoys |-> [engines EXCEPT ![i] = done.cartridges],
                   calls |-> made, ret |-> done.ret]
             ELSE ProcessEfoys([engines EXCEPT ![i] = done.cartridges],
                               made, heartbeat, i + 1)

\* ----------------------------------------------------------------- state
VARIABLES
    message,    \* Message::add: the Message the last add was called on
    payload,    \* Message::add: the payload of the last add
    result,     \* Message::add: what the last add returned ("New": no add yet)
    packets,    \* Message::add: the payloads added since Message::new, in order
    versions,   \* ReadSbd.versions
    taken,      \* how many transmissions ReadSbd.iter has handed out
    exhausted,  \* ReadSbd.iter has returned None
    msg,        \* next: the local `message`
    datetime,   \* next: the local `datetime`
    parts,      \* next: the transmissions added to `message` since Message::new
    decoded,    \* next: the body the last iteration gave Heartbeat::new, if any
    item,       \* next: what the call returned ("Running": inside the loop,
                \* "Taken": the caller has taken it)
    previous,   \* the item the caller took last
    lastOk,     \* the datetime of the Ok heartbeat the caller took last, if any
    efoy,       \* Efoy.cartridges
    call,       \* the last call on the Efoy: its arguments, the cartridges
                \* and the `active` it found, and what it returned
    active,     \* the place in Efoy.cartridges of the cartridge named by the
                \* last process that returned Ok (0: none yet)
    heartbeats, \* Status::new: the local `heartbeats`, sorted
    efoys,      \* Timeseries.efoys
    processed,  \* Status::new: the heartbeats timeseries.process has returned Ok for
    fed,        \* the Efoy::process calls of the replay so far, in order
    status      \* what Status::new returned ("Running": inside its loop)

msgVars == <<message, payload, result, packets>>
sbdVars == <<versions, taken, exhausted, msg, datetime, parts, decoded, item, previous,
            lastOk>>
efoyVars == <<efoy, call, active>>
vars == <<message, payload, result, packets,
          versions, taken, exhausted, msg, datetime, parts, decoded, item, previous,
          lastOk,
          efoy, call, active,
          heartbeats, efoys, processed, fed, status>>
statusVars == <<heartbeats, efoys, processed, fed, status>>

New(m) == [tag |-> "New", value |-> m]
MessageNew == Unstarted

MessageIdle ==
    /\ message = MessageNew
    /\ payload = <<>>
    /\ result = New(MessageNew)
    /\ packets = <<>>

NotCalled == [tag |-> "NotCalled"]
Taken == [tag |-> "Taken"]
Running == [tag |-> "Running"]

SbdIdle ==
    /\ versions = {}
    /\ taken = 0
    /\ exhausted = FALSE
    /\ msg = MessageNew
    /\ datetime = None
    /\ parts = <<>>
    /\ decoded = None
    /\ item = NotCalled
    /\ previous = NotCalled
    /\ lastOk = None

\* Efoy::new()
EfoyIdle ==
    /\ efoy = EfoyNew
    /\ call = [op |-> "new"]
    /\ active = 0

\* ------------------------------------------- folding Message::add
StatusIdle ==
    /\ heartbeats = <<>>
    /\ efoys = <<>>
    /\ processed = 0
    /\ fed = <<>>
    /\ status = NotCalled

MessageInit == MessageIdle /\ SbdIdle /\ EfoyIdle /\ StatusIdle

\* let message = Message::new();
MessageNewStep ==
    /\ result.tag \in {"Ok", "Err"}
    /\ message' = MessageNew
    /\ payload' = <<>>
    /\ result' = New(MessageNew)
    /\ packets' = <<>>
    /\ UNCHANGED sbdVars
    /\ UNCHANGED efoyVars
    /\ UNCHANGED statusVars

\* message.add(payload): add consumes the message, so the next add is on the
\* message the last one returned.
MessageAddStep(p) ==
    /\ result.tag \in {"New", "Ok"}
    /\ Len(packets) < MaxPackets
    /\ message' = result.value
    /\ payload' = p
    /\ result' = MessageAdd(result.value, p)
    /\ packets' = Append(packets, p)
    /\ UNCHANGED sbdVars
    /\ UNCHANGED efoyVars
    /\ UNCHANGED statusVars

MessageNext ==
    \/ MessageNewStep
    \/ \E p \in Payloads : MessageAddStep(p)

SpecMessage == MessageInit /\ [][MessageNext]_vars

\* ------------------------------------------- claims on Message::add
\* What the claims read off the state: the packet the last payload stands
\* for, and the packets added since Message::new.
Added == result.tag \in {"Ok", "Err", "Panic"}
IsPacket(p) == PacketFromStr(p).tag = "Ok"
PacketOf(p) == PacketFromStr(p).value
Rest(p) == SubSeq(p, 2, Len(p))
IsForced(p) == p # <<>> /\ p[1] \in {"8", "9"}
IsExtended(p) == IsPacket(p) /\ PacketOf(p).type = "SelfTimedExtended"

RECURSIVE Accumulated(_, _)
Accumulated(ps, k) ==
    IF k = 0 THEN <<>> ELSE Accumulated(ps, k - 1) \o PacketOf(ps[k]).data

\* The packets of one extended message: one id, the first with start_byte 0
\* and a total_bytes field, each later one starting where the data so far ends.
WellFormedExtended(ps) ==
    /\ ps # <<>>
    /\ \A i \in 1..Len(ps) : IsExtended(ps[i])
    /\ \A i \in 1..Len(ps) : PacketOf(ps[i]).id = PacketOf(ps[1]).id
    /\ PacketOf(ps[1]).start_byte = 0
    /\ IsSome(PacketOf(ps[1]).total_bytes)
    /\ \A i \in 2..Len(ps) : PacketOf(ps[i]).start_byte = Len(Accumulated(ps, i - 1))

TotalOf(ps) == PacketOf(ps[1]).total_bytes.value

ReachedAt(ps, k) == k >= 2 /\ Len(Accumulated(ps, k)) = TotalOf(ps)
C3_CompleteAcceptsNothing ==
    (Added /\ message.state = "Complete") =>
        /\ result.tag # "Ok"
        /\ IsPacket(payload) => result = Err(MessageComplete)

C3_Witness ==
    /\ Added /\ message.state = "Complete"
    /\ IsForced(payload)
    /\ result = Err(MessageComplete)

\* C4 as claimed: from every state a forced packet gives Ok(Complete(text)),
\* text being the payload without its type character.
C4_ForcedCompletesFromEveryState ==
    (Added /\ IsForced(payload)) => result = Ok(Complete(Rest(payload)))

\* C4 amended: from Unstarted and from Incomplete a forced packet gives
\* Ok(Complete(text)), text being the payload without its type character and
\* nothing of the data accumulated before; from Complete it gives
\* MessageComplete, as every packet does.
C4_ForcedCompletesUnlessComplete ==
    (Added /\ IsForced(payload)) =>
        IF message.state = "Complete"
        THEN result = Err(MessageComplete)
        ELSE result = Ok(Complete(Rest(payload)))

C4_Witness ==
    /\ Added /\ IsForced(payload) /\ Rest(payload) # <<>>
    /\ message.state = "Incomplete" /\ message.data # <<>>
    /\ result = Ok(Complete(Rest(payload)))

\* C5 as claimed: a continuation with the message's id and the right
\* start_byte whose data takes the message past total_bytes is answered with
\* an Overflow error, and no Incomplete message holds more than total_bytes.
C5_OverflowIsAnError ==
    /\ (Added /\ message.state = "Incomplete" /\ IsExtended(payload)
          /\ PacketOf(payload).id = message.id
          /\ PacketOf(payload).start_byte = Len(message.data)
          /\ Len(message.data) + Len(PacketOf(payload).data) > message.total_bytes)
         => (result.tag = "Err" /\ result.err.kind = "Overflow")
    /\ (result.tag = "Ok" /\ result.value.state = "Incomplete")
         => Len(result.value.data) <= result.value.total_bytes

\* C6: a continuation with the message's id and a start_byte that is not the
\* length accumulated is answered with ByteMismatch{received, start_byte}.
C6_ByteMismatch ==
    (Added /\ message.state = "Incomplete" /\ IsExtended(payload)
       /\ PacketOf(payload).id = message.id
       /\ PacketOf(payload).start_byte # Len(message.data))
      => result = Err(ByteMismatch(Len(message.data), PacketOf(payload).start_byte))

\* A start_byte below the accumulated length, on the third packet.
C6_Witness ==
    /\ Added /\ message.state = "Incomplete" /\ IsExtended(payload)
    /\ PacketOf(payload).id = message.id
    /\ PacketOf(payload).start_byte < Len(message.data)
    /\ Len(packets) = 3
    /\ result.tag = "Err" /\ result.err.kind = "ByteMismatch"

\* C7: a continuation whose id is not the message's is answered with
\* IdMismatch{packet, message}, whatever its start_byte, total_bytes and data.
C7_IdMismatch ==
    (Added /\ message.state = "Incomplete" /\ IsExtended(payload)
       /\ PacketOf(payload).id # message.id)
      => result = Err(IdMismatch(PacketOf(payload).id, message.id))

\* Both checks would fail: the id and the start_byte are wrong.
C7_Witness ==
    /\ Added /\ message.state = "Incomplete" /\ IsExtended(payload)
    /\ PacketOf(payload).id # message.id
    /\ PacketOf(payload).start_byte # Len(message.data)
    /\ result.tag = "Err" /\ result.err.kind = "IdMismatch"

\* C8: on an Unstarted message a payload that opens with '0' or '8' gives a
\* Complete message at once, its body the payload without that character.
C8_SinglePacketCompletes ==
    (Added /\ message.state = "Unstarted" /\ payload # <<>> /\ payload[1] \in {"0", "8"})
      => result = Ok(Complete(Rest(payload)))

C8_Witness ==
    /\ Added /\ message.state = "Unstarted"
    /\ payload # <<>> /\ payload[1] = "0" /\ Rest(payload) # <<>>
    /\ result.tag = "Ok" /\ IsComplete(result.value)

\* C20: the first character of a payload alone selects the packet: '0', '8'
\* and '9' give SelfTimed, ForcedTransmission and ForcedTransmissionExtended
\* with the rest of the payload kept verbatim, '1' gives a SelfTimedExtended
\* packet or an error of the extended grammar, and a payload that opens with
\* any other character is rejected with an error (through Message::add too)
\* and gives no Packet.
C20_ClassifiesByFirstCharacter ==
    (Added /\ payload # <<>>) =>
        LET parsed == PacketFromStr(payload)
            c == payload[1]
        IN  /\ c = "0" => parsed = Ok(SelfTimed(Rest(payload)))
            /\ c = "8" => parsed = Ok(ForcedTransmission(Rest(payload)))
            /\ c = "9" => parsed = Ok(ForcedTransmissionExtended(Rest(payload)))
            /\ c = "1" =>
                  \/ parsed.tag = "Ok" /\ parsed.value.type = "SelfTimedExtended"
                  \/ parsed.tag = "Err" /\ parsed.err.kind \in {"InvalidFormat", "ParseInt"}
            /\ c \notin {"0", "1", "8", "9"} =>
                  /\ parsed.tag = "Err"
                  /\ result = parsed

\* C22: on an Unstarted message an extended packet whose start_byte is not 0
\* gives NonzeroStartByte, with a total_bytes field or without, and no
\* message comes of it.
C22_NonzeroStartByte ==
    (Added /\ message.state = "Unstarted" /\ IsExtended(payload)
           /\ PacketOf(payload).start_byte # 0)
      => result = Err(NonzeroStartByte)

C22_Witness ==
    /\ Added /\ message.state = "Unstarted" /\ IsExtended(payload)
    /\ PacketOf(payload).start_byte # 0
    /\ ~IsSome(PacketOf(payload).total_bytes)
    /\ result.tag = "Err" /\ result.err.kind = "NonzeroStartByte"

C24_NonExtendedContinuation ==
    (Added /\ message.state = "Incomplete" /\ payload # <<>> /\ payload[1] = "0")
      => result = Err(NonExtendedContinuationPacket)

C24_Witness ==
    /\ Added /\ message.state = "Incomplete"
    /\ payload # <<>> /\ payload[1] = "0" /\ Rest(payload) # <<>>
    /\ result.tag = "Err" /\ result.err.kind = "NonExtendedContinuationPacket"

\* The id field of a payload the extended grammar accepts.
HasIdField(p) == IsCharBoundary1(p) /\ p[1] = "1" /\ IsSome(RegexCaptures(p))
IdField(p) == ParseDigits(RegexCaptures(p).value.id)

\* C31: an extended payload whose id field is above 255 is answered with the
\* number parse error, whatever the message it is added to: the id is not
\* taken modulo 256, so the payload neither starts a message nor continues
\* the message in progress whose id it would wrap to.
C31_IdAboveU8IsRejected ==
    (Added /\ HasIdField(payload) /\ IdField(payload) > U8Max) =>
        /\ PacketFromStr(payload) = Err(ParseInt)
        /\ result = Err(ParseInt)

\* The id wraps to the id of the message in progress, and the start_byte is
\* the one that message waits for.
C31_Witness ==
    /\ Added /\ HasIdField(payload) /\ IdField(payload) > U8Max
    /\ message.state = "Incomplete"
    /\ IdField(payload) % (U8Max + 1) = message.id
    /\ ParseDigits(RegexCaptures(payload).value.start_byte) = Len(message.data)
    /\ result = Err(ParseInt)

\* C32: an Incomplete message an add returns holds less data than its
\* total_bytes, and a first extended packet whose data has total_bytes bytes
\* already gives a Complete message.
C32_IncompleteIsShort ==
    /\ (result.tag = "Ok" /\ result.value.state = "Incomplete")
          => Len(result.value.data) < result.value.total_bytes
    /\ (Added /\ message.state = "Unstarted" /\ IsExtended(payload)
          /\ PacketOf(payload).start_byte = 0
          /\ PacketOf(payload).total_bytes = Some(Len(PacketOf(payload).data)))
          => (result.tag = "Ok" /\ IsComplete(result.value))

\* C38: an add of an extended packet to an Incomplete message that returns
\* Ok returns that message's data with the packet's data appended, in a
\* message that is Complete when the length is the message's total_bytes and
\* else Incomplete with the message's id and total_bytes: a total_bytes field
\* of the continuation packet changes nothing.
C38_ContinuationKeepsIdAndTotal ==
    (Added /\ message.state = "Incomplete" /\ IsExtended(payload) /\ result.tag = "Ok") =>
        LET data == message.data \o PacketOf(payload).data
        IN  result.value =
                IF Len(data) = message.total_bytes THEN Complete(data)
                ELSE Incomplete(message.id, message.total_bytes, data)

\* The continuation packet carries a total_bytes of its own, which the data
\* reaches while the message's is not reached.
C38_Witness ==
    /\ Added /\ message.state = "Incomplete" /\ IsExtended(payload)
    /\ IsSome(PacketOf(payload).total_bytes)
    /\ PacketOf(payload).total_bytes.value # message.total_bytes
    /\ PacketOf(payload).total_bytes.value = Len(message.data) + Len(PacketOf(payload).data)
    /\ PacketOf(payload).data # <<>>
    /\ result.tag = "Ok" /\ result.value.state = "Incomplete"
    /\ result.value.total_bytes = message.total_bytes

\* ------------------------------------------------------ ReadSbd::next
\* SbdSource::iter sorts the messages by time of session: the i-th message
\* handed out has session time i.  Its payload is whatever the store holds.
TransmissionUnsorted(i, p) == [time |-> MaxMessages + 1 - i, payload |-> p]
Transmission(i, p) == [time |-> i, payload |-> p]

\* if datetime.is_none() { datetime = Some(sbd_message.time_of_session()); }
FirstDatetime(dt, sbd_message) ==
    IF ~IsSome(dt) THEN Some(sbd_message.time) ELSE dt

\* versions.is_empty() || versions.contains(&heartbeat.version)
VersionWantedAlways(vs, heartbeat) == TRUE
VersionWanted(vs, heartbeat) == vs = {} \/ heartbeat.version \in vs

\* The message the loop goes on with and what next returns, for the result
\* `added` of message.add and the heartbeat decoded from a complete message.
AfterAddSkipsUndecodable(vs, m, added, heartbeat) ==
    IF added.tag = "Panic" THEN [ret |-> Panic, msg |-> m]
    ELSE IF added.tag = "Err" THEN [ret |-> Some(added), msg |-> m]
    ELSE IF IsComplete(added.value)
    THEN IF heartbeat.tag = "Err" \/ ~VersionWanted(vs, heartbeat.value)
         THEN [ret |-> Running, msg |-> MessageNew]
         ELSE [ret |-> Some(heartbeat), msg |-> m]
    ELSE [ret |-> Running, msg |-> added.value]

AfterAdd(vs, m, added, heartbeat) ==
    IF added.tag = "Panic" THEN [ret |-> Panic, msg |-> m]
    ELSE IF added.tag = "Err" THEN [ret |-> Some(added), msg |-> m]
    ELSE IF IsComplete(added.value)
    THEN IF heartbeat.tag = "Ok" /\ ~VersionWanted(vs, heartbeat.value)
         THEN [ret |-> Running, msg |-> MessageNew]
         ELSE [ret |-> Some(heartbeat), msg |-> m]
    ELSE [ret |-> Running, msg |-> added.value]

\* What next returns when the loop ends with the message m in hand.
UnfinishedMessage == [kind |-> "UnfinishedMessage"]
AfterLoopFlushes(m) == IF m.state = "Incomplete" THEN Some(Err(UnfinishedMessage)) ELSE None
AfterLoop(m) == None

\* let mut message = Message::new(); let mut datetime = None;
EntryMessageKept(m) == m
EntryMessage(m) == MessageNew
EntryDatetime(dt) == None

\* One iteration of `while let Some(sbd_message) = self.iter.next()`, entered
\* with the locals m and dt and with `sofar` added to m since Message::new.
\* The iterator hands out the next transmission of the store, or None when
\* the store holds no more.
IterationRestartable(m, dt, sofar) ==
    \/ /\ exhausted' = FALSE
       /\ item' = None
       /\ decoded' = None
       /\ msg' = m
       /\ datetime' = dt
       /\ parts' = sofar
       /\ UNCHANGED taken
    \/ /\ ~exhausted
       /\ taken < MaxMessages
       /\ \E p \in Payloads :
            LET sbd_message == Transmission(taken + 1, p)
                dt2 == FirstDatetime(dt, sbd_message)
                added == MessageAdd(m, p)
                complete == added.tag = "Ok" /\ IsComplete(added.value)
                body == IF complete THEN StringFromMessage(added.value) ELSE <<>>
                heartbeat == HeartbeatNew(body, dt2.value)
                after == AfterAdd(versions, m, added, heartbeat)
            IN  /\ taken' = taken + 1
                /\ datetime' = dt2
                /\ decoded' = IF complete THEN Some(body) ELSE None
                /\ item' = after.ret
                /\ msg' = after.msg
                /\ parts' = Append(sofar, sbd_message)
       /\ UNCHANGED exhausted

IterationRetries(m, dt, sofar) ==
    \/ /\ exhausted' = TRUE
       /\ item' = None
       /\ decoded' = None
       /\ msg' = m
       /\ datetime' = dt
       /\ parts' = sofar
       /\ UNCHANGED taken
    \/ /\ ~exhausted
       /\ taken < MaxMessages
       /\ \E p \in Payloads :
            LET sbd_message == Transmission(taken + 1, p)
                dt2 == FirstDatetime(dt, sbd_message)
                retried == MessageAdd(m, p).tag = "Err" /\ m # MessageNew
                m2 == IF retried THEN MessageNew ELSE m
                added == MessageAdd(m2, p)
                complete == added.tag = "Ok" /\ IsComplete(added.value)
                body == IF complete THEN StringFromMessage(added.value) ELSE <<>>
                heartbeat == HeartbeatNew(body, dt2.value)
                after == AfterAdd(versions, m2, added, heartbeat)
            IN  /\ taken' = taken + 1
                /\ datetime' = dt2
                /\ decoded' = IF complete THEN Some(body) ELSE None
                /\ item' = after.ret
                /\ msg' = after.msg
                /\ parts' = IF retried THEN <<sbd_message>> ELSE Append(sofar, sbd_message)
       /\ UNCHANGED exhausted

Iteration(m, dt, sofar) ==
    \/ /\ exhausted' = TRUE                    \* None: the loop ends, next returns None
       /\ item' = AfterLoop(m)
       /\ decoded' = None
       /\ msg' = m
       /\ datetime' = dt
       /\ parts' = sofar
       /\ UNCHANGED taken
    \/ /\ ~exhausted
       /\ taken < MaxMessages
       /\ \E p \in Payloads :
            LET sbd_message == Transmission(taken + 1, p)
                dt2 == FirstDatetime(dt, sbd_message)
                added == MessageAdd(m, p)
                complete == added.tag = "Ok" /\ IsComplete(added.value)
                body == IF complete THEN StringFromMessage(added.value) ELSE <<>>
                heartbeat == HeartbeatNew(body, dt2.value)
                after == AfterAdd(versions, m, added, heartbeat)
            IN  /\ taken' = taken + 1
                /\ datetime' = dt2
                /\ decoded' = IF complete THEN Some(body) ELSE None
                /\ item' = after.ret
                /\ msg' = after.msg
                /\ parts' = Append(sofar, sbd_message)
       /\ UNCHANGED exhausted

\* SbdSource::new(path).versions(vs).iter()
Init ==
    /\ MessageIdle
    /\ EfoyIdle
    /\ StatusIdle
    /\ versions \in VersionFilters
    /\ taken = 0
    /\ exhausted = FALSE
    /\ msg = MessageNew
    /\ datetime = None
    /\ parts = <<>>
    /\ decoded = None
    /\ item = NotCalled
    /\ previous = NotCalled
    /\ lastOk = None

\* A call of next, up to the end of its first iteration.
ReadSbdNextEnter ==
    /\ item.tag \in {"NotCalled", "Taken"}
    /\ Iteration(EntryMessage(msg), EntryDatetime(datetime), <<>>)
    /\ UNCHANGED <<versions, previous, lastOk>>
    /\ UNCHANGED msgVars
    /\ UNCHANGED efoyVars
    /\ UNCHANGED statusVars

\* A later iteration of the loop of that call.  `parts` starts over when the
\* loop has replaced the message by Message::new().
ReadSbdNextLoop ==
    /\ item.tag = "Running"
    /\ Iteration(msg, datetime, IF msg = MessageNew THEN <<>> ELSE parts)
    /\ UNCHANGED <<versions, previous, lastOk>>
    /\ UNCHANGED msgVars
    /\ UNCHANGED efoyVars
    /\ UNCHANGED statusVars

\* next has returned: the item moves to the caller (for .. in, filter_map,
\* collect), which calls next again only after that.
TakeItem ==
    /\ item.tag \in {"None", "Some"}
    /\ previous' = item
    /\ lastOk' = IF item.tag = "Some" /\ item.value.tag = "Ok"
                 THEN Some(item.value.value.datetime)
                 ELSE lastOk
    /\ item' = Taken
    /\ parts' = <<>>
    /\ decoded' = None
    /\ UNCHANGED <<versions, taken, exhausted, msg, datetime>>
    /\ UNCHANGED msgVars
    /\ UNCHANGED efoyVars
    /\ UNCHANGED statusVars

Next == ReadSbdNextEnter \/ ReadSbdNextLoop \/ TakeItem

Spec == Init /\ [][Next]_vars

\* --------------------------------------------- claims on ReadSbd::next
PayloadsOf(ts) == [i \in 1..Len(ts) |-> ts[i].payload]
LastPart == parts[Len(parts)]
YieldedOk == item.tag = "Some" /\ item.value.tag = "Ok"
IsAddFault(it) ==
    /\ it.tag = "Some" /\ it.value.tag = "Err"
    /\ it.value.err.kind # "HeartbeatFormat"

\* The session time of the transmission that began the message `parts` ends
\* with: the forced packet itself, else the first packet added to the message.
BeganAt ==
    IF IsForced(LastPart.payload) THEN LastPart.time ELSE parts[1].time

\* C1 as claimed: an Ok heartbeat carries the session time of the transmission
\* that began its message.
C1_DatetimeOfFirstPacket ==
    YieldedOk => item.value.value.datetime = BeganAt

\* C9: when Message::add returns a fault inside next, next returns that fault
\* and nothing else; and the first transmission a call pulls is added to an
\* Unstarted message with no datetime, whatever the call before returned and
\* whatever message it left behind.
C9_FaultIsYieldedAndNextStartsFresh ==
    [][taken' = taken + 1 =>
        LET sbd_message == parts'[Len(parts')]
            inLoop == MessageAdd(msg, sbd_message.payload)
            fresh == MessageAdd(Unstarted, sbd_message.payload)
        IN  /\ (item.tag = "Running" /\ inLoop.tag = "Err") => item' = Some(inLoop)
            /\ item.tag \in {"NotCalled", "Taken"} =>
                 /\ parts' = <<sbd_message>>
                 /\ sbd_message.time = taken'
                 /\ datetime' = Some(sbd_message.time)
                 /\ fresh.tag = "Err" => item' = Some(fresh)
                 /\ (fresh.tag = "Ok" /\ fresh.value.state = "Incomplete")
                      => (item' = Running /\ msg' = fresh.value)
                 /\ (fresh.tag = "Ok" /\ fresh.value.state = "Complete")
                      => decoded' = Some(fresh.value.data)]_vars

\* The call before faulted on a packet of another id than its message's; this
\* call pulled a continuation packet carrying the id of that message, and
\* answered as an Unstarted message does.
C9_Witness ==
    /\ IsAddFault(previous) /\ previous.value.err.kind = "IdMismatch"
    /\ Len(parts) = 1 /\ IsExtended(LastPart.payload)
    /\ PacketOf(LastPart.payload).id = previous.value.err.message
    /\ PacketOf(LastPart.payload).start_byte # 0
    /\ item = Some(Err(NonzeroStartByte))

\* C10: a body given to the decoder on an extended packet is the data of the
\* packets added since Message::new, all extended and of the first one's id,
\* each at the start_byte the data before it ends at, and it has the length
\* the first packet declared.
C10_DeliveredExtendedBodies ==
    (IsSome(decoded) /\ IsExtended(LastPart.payload)) =>
        /\ WellFormedExtended(PayloadsOf(parts))
        /\ decoded.value = Accumulated(PayloadsOf(parts), Len(parts))
        /\ Len(decoded.value) = TotalOf(PayloadsOf(parts))

C10_Witness ==
    /\ IsSome(decoded) /\ IsExtended(LastPart.payload)
    /\ Len(parts) = 3
    /\ decoded.value # <<>>

\* ------------------------------------------------- the Efoy's calls
EfoyInit == MessageIdle /\ SbdIdle /\ EfoyIdle /\ StatusIdle

IndexOf(cartridges, name) ==
    CHOOSE i \in 1..Len(cartridges) : cartridges[i].name = name

\* efoy.add_cartridge(name, capacity).  An Efoy holds at most MaxCartridges
\* cartridges; a name it already holds can be offered again at any time.
EfoyAddCartridgeStep(name, capacity) ==
    /\ Len(efoy) < MaxCartridges \/ IsSome(EfoyCartridge(efoy, name))
    /\ LET done == EfoyAddCartridge(efoy, name, capacity)
       IN  /\ efoy' = done.cartridges
           /\ call' = [op |-> "add_cartridge", name |-> name, amount |-> capacity,
                       before |-> efoy, active |-> active, ret |-> done.ret]
    /\ UNCHANGED active
    /\ UNCHANGED <<msgVars, sbdVars>>
    /\ UNCHANGED statusVars

\* efoy.process(&heartbeat)
EfoyProcessStep(heartbeat) ==
    /\ LET done == EfoyProcess(efoy, heartbeat)
       IN  /\ efoy' = done.cartridges
           /\ call' = [op |-> "process", name |-> heartbeat.cartridge,
                       amount |-> heartbeat.consumed,
                       before |-> efoy, active |-> active, ret |-> done.ret]
           /\ active' = IF done.ret.tag = "Ok"
                          THEN IndexOf(efoy, heartbeat.cartridge)
                          ELSE active
    /\ UNCHANGED <<msgVars, sbdVars>>
    /\ UNCHANGED statusVars

EfoyNext ==
    \/ \E name \in EfoyNames, capacity \in Capacities : EfoyAddCartridgeStep(name, capacity)
    \/ \E heartbeat \in EfoyHeartbeats : EfoyProcessStep(heartbeat)

SpecEfoy == EfoyInit /\ [][EfoyNext]_vars

\* ------------------------------------------------ claims on the Efoy
\* What the claims read off the last call.
Processed == call.op = "process"
ProcessedOk == Processed /\ call.ret.tag = "Ok"
Configured(cartridges, name) == \E i \in 1..Len(cartridges) : cartridges[i].name = name
Named == IndexOf(call.before, call.name)

\* C11: a process that returns Ok and names the cartridge at place k leaves
\* every cartridge before k emptied with consumed = capacity, and the
\* consumed of cartridge k equal to the reading's consumed, whatever it was.
C11_ProcessEmptiesEarlierAndSetsConsumed ==
    ProcessedOk =>
        /\ Len(efoy) = Len(call.before)
        /\ \A i \in 1..(Named - 1) :
              efoy[i].emptied /\ efoy[i].consumed = efoy[i].capacity
        /\ efoy[Named].consumed = call.amount

C11_Witness ==
    /\ ProcessedOk /\ Named = 3
    /\ ~call.before[2].emptied
    /\ call.before[2].consumed > 0 /\ call.before[2].consumed < call.before[2].capacity
    /\ call.amount > 0
    /\ efoy[1].emptied /\ efoy[2].emptied

\* C12: a process that names a cartridge the Efoy does not hold returns the
\* CartridgeName error and leaves every cartridge as it was.
C12_UnknownCartridgeIsRejected ==
    (Processed /\ ~Configured(call.before, call.name)) =>
        /\ call.ret = Err(CartridgeName(call.name))
        /\ efoy = call.before

C12_Witness ==
    /\ Processed /\ ~Configured(call.before, call.name)
    /\ Len(call.before) = 2
    /\ call.before[1].emptied /\ ~call.before[2].emptied
    /\ call.before[2].consumed # call.amount
    /\ call.ret.tag = "Err"

\* C13: once a process naming the cartridge at place k has returned Ok, a
\* process naming a cartridge configured before k returns the EmptyCartridge
\* error and leaves every cartridge as it was.
C13_EarlierCartridgeIsRejected ==
    (Processed /\ Configured(call.before, call.name) /\ Named < call.active) =>
        /\ call.ret = Err(EmptyCartridge(call.name))
        /\ efoy = call.before

C13_Witness ==
    /\ Processed /\ Configured(call.before, call.name)
    /\ call.active = 3 /\ Named = 2
    /\ call.amount # call.before[2].consumed
    /\ ~call.before[3].emptied
    /\ call.ret.tag = "Err" /\ call.ret.err.kind = "EmptyCartridge"

\* C14: add_cartridge with a name the Efoy already holds returns the
\* DuplicateEfoyCartridge error and leaves the list of cartridges as it was;
\* so the names of the cartridges are pairwise distinct in every state.
C14_DuplicateCartridgeIsRejected ==
    /\ (call.op = "add_cartridge" /\ Configured(call.before, call.name)) =>
          /\ call.ret = Err(DuplicateEfoyCartridge(call.name))
          /\ efoy = call.before
    /\ \A i, j \in 1..Len(efoy) : efoy[i].name = efoy[j].name => i = j

C14_Witness ==
    /\ call.op = "add_cartridge" /\ Configured(call.before, call.name)
    /\ Len(call.before) = 2 /\ Named = 1
    /\ call.before[1].emptied
    /\ call.amount # call.before[1].capacity
    /\ call.ret.tag = "Err"

\* C15: a cartridge that is emptied has consumed = capacity, and whatever
\* call comes next, add_cartridge or process, Ok or Err, leaves it emptied
\* with the capacity it had.
C15_EmptiedStaysEmptied ==
    /\ \A i \in 1..Len(efoy) : efoy[i].emptied => efoy[i].consumed = efoy[i].capacity
    /\ call.op # "new" =>
          \A i \in 1..Len(call.before) :
              call.before[i].emptied =>
                  /\ i <= Len(efoy)
                  /\ efoy[i] = call.before[i]

C15_Witness ==
    /\ ProcessedOk /\ Named = 3
    /\ call.before[1].emptied /\ call.before[1].capacity > 0
    /\ call.amount > 0
    /\ efoy[1].emptied /\ efoy[1].consumed = efoy[1].capacity

\* C16, as stated: over process calls that return Ok, the consumed of a
\* cartridge that is not emptied never decreases from one call to the next.
C16_ConsumedNeverDecreases ==
    ProcessedOk =>
        \A i \in 1..Len(efoy) :
            ~efoy[i].emptied => efoy[i].consumed >= call.before[i].consumed

\* C16, as the code has it: a process that returns Ok gives the named
\* cartridge the reading's consumed and leaves the later cartridges alone, so
\* the consumed of a cartridge that is not emptied decreases only for the
\* named cartridge, and only when the reading is below what it held.
C16_ConsumedFollowsTheReading ==
    ProcessedOk =>
        \A i \in 1..Len(efoy) :
            ~efoy[i].emptied =>
                /\ i >= Named
                /\ i = Named => efoy[i].consumed = call.amount
                /\ i > Named => efoy[i].consumed = call.before[i].consumed
                /\ call.amount >= call.before[Named].consumed
                      => efoy[i].consumed >= call.before[i].consumed

C16_Witness ==
    /\ ProcessedOk /\ Named = 2 /\ Len(efoy) = 3
    /\ call.before[2].consumed > 0
    /\ call.amount > call.before[2].consumed
    /\ efoy[2].consumed > call.before[2].consumed
    /\ ~efoy[3].emptied

\* C17: the emptied cartridges are the first ones of the configured order:
\* below an emptied cartridge every cartridge is emptied, and so is every
\* cartridge below the one activated last.
C17_EmptiedIsAPrefix ==
    /\ \A j \in 1..Len(efoy) :
          efoy[j].emptied => \A i \in 1..(j - 1) : efoy[i].emptied
    /\ \A i \in 1..(active - 1) : efoy[i].emptied

C17_Witness ==
    /\ ProcessedOk /\ active = 3 /\ call.active = 1
    /\ ~call.before[1].emptied /\ ~call.before[2].emptied
    /\ efoy[1].emptied /\ efoy[2].emptied /\ ~efoy[3].emptied

\* What f32 gives for 0 and for 100 per cent.
Percent(n) == Ratio(n, 1)

\* The fuel_percentage the Efoy gives for its i-th cartridge.
FuelPercentageAt(i) == EfoyFuelPercentage(efoy, efoy[i].name)

\* fuel_percentage(name) is 100 * (capacity - consumed) / capacity of the
\* named cartridge, and None for a name the Efoy does not hold.
FuelPercentageIsTheQuotient ==
    \A name \in HeartbeatNames :
        EfoyFuelPercentage(efoy, name) =
            IF Configured(efoy, name)
            THEN LET c == efoy[IndexOf(efoy, name)]
                 IN  Some(F32Div(100 * (c.capacity - c.consumed), c.capacity))
            ELSE None

\* C18, as stated: fuel_percentage is that quotient, and after a reading
\* with consumed 0 activates the cartridge at place k it is 0 for every
\* cartridge before k and 100 for k and every cartridge after it.
C18_FuelPercentage ==
    /\ FuelPercentageIsTheQuotient
    /\ (ProcessedOk /\ call.amount = 0) =>
          \A i \in 1..Len(efoy) :
              FuelPercentageAt(i) = Some(Percent(IF i < Named THEN 0 ELSE 100))

\* C18, as the code has it: the same for every cartridge whose capacity is
\* not 0; for a cartridge of capacity 0 the quotient is 0 / 0, and
\* fuel_percentage is NaN, before k and after it.
C18_FuelPercentageOfNonzeroCapacity ==
    /\ FuelPercentageIsTheQuotient
    /\ (ProcessedOk /\ call.amount = 0) =>
          \A i \in 1..Len(efoy) :
              FuelPercentageAt(i) =
                  IF efoy[i].capacity = 0 THEN Some(NaN)
                  ELSE Some(Percent(IF i < Named THEN 0 ELSE 100))

C18_Witness ==
    /\ ProcessedOk /\ call.amount = 0 /\ Named = 2 /\ Len(efoy) = 3
    /\ \A i \in 1..3 : efoy[i].capacity > 0
    /\ ~call.before[1].emptied /\ call.before[1].consumed < call.before[1].capacity
    /\ FuelPercentageAt(1) = Some(Percent(0))
    /\ FuelPercentageAt(2) = Some(Percent(100))
    /\ FuelPercentageAt(3) = Some(Percent(100))
    /\ EfoyFuelPercentage(efoy, "3.1") = None

\* The sum of a sequence of numbers.
RECURSIVE SumOf(_)
SumOf(xs) == IF xs = <<>> THEN 0 ELSE Head(xs) + SumOf(Tail(xs))

\* Capacity less consumed of each cartridge, an emptied cartridge counted as 0.
RemainingFuel == [i \in 1..Len(efoy) |->
                     IF efoy[i].emptied THEN 0 ELSE efoy[i].capacity - efoy[i].consumed]
EachCapacity == [i \in 1..Len(efoy) |-> efoy[i].capacity]

\* C19: for an Efoy that holds a cartridge, total_fuel is the sum over the
\* cartridges of capacity - consumed, an emptied cartridge giving 0, and
\* total_fuel_percentage is 100 times that sum over the sum of the capacities.
C19_TotalFuel ==
    Len(efoy) >= 1 =>
        /\ EfoyTotalFuel(efoy) = SumOf(RemainingFuel)
        /\ EfoyTotalFuelPercentage(efoy) =
              F32Div(100 * SumOf(RemainingFuel), SumOf(EachCapacity))

C19_Witness ==
    /\ ProcessedOk /\ Named = 2 /\ Len(efoy) = 3
    /\ efoy[1].emptied /\ efoy[1].capacity > 0
    /\ efoy[2].consumed > 0 /\ efoy[2].consumed < efoy[2].capacity
    /\ efoy[3].capacity > 0
    /\ EfoyTotalFuel(efoy) > 0
    /\ EfoyTotalFuelPercentage(efoy).tag = "Ratio"
    /\ EfoyTotalFuelPercentage(efoy).num > 0
    /\ EfoyTotalFuelPercentage(efoy) # Percent(100)

\* C33: the Ok heartbeats next yields come in non-decreasing order of
\* datetime, whatever was yielded or skipped between two of them: faults,
\* forced packets, messages of a version the filter leaves out.
C33_DatetimesNonDecreasing ==
    (YieldedOk /\ IsSome(lastOk)) => lastOk.value <= item.value.value.datetime

\* Under a version filter, a fault was yielded between two Ok heartbeats.
C33_Witness ==
    /\ YieldedOk /\ IsSome(lastOk)
    /\ previous.tag = "Some" /\ previous.value.tag = "Err"
    /\ versions # {}

\* The first packet of an extended message.
IsStartPacket(p) ==
    /\ IsExtended(p)
    /\ PacketOf(p).start_byte = 0
    /\ IsSome(PacketOf(p).total_bytes)

\* C34: a step of next pulls at most one transmission, the one after the
\* last pulled, and adds it to one message only: the message of the loop,
\* or an Unstarted one when the call begins.  When that add faults the fault
\* is the item, and the transmission is not added again to another message:
\* a start packet that faults on an Incomplete message starts no message,
\* and the call after it begins with the transmission that follows.
C34_FaultingTransmissionIsConsumed ==
    [][/\ taken' \in {taken, taken + 1}
       /\ taken' = taken + 1 =>
            LET t == parts'[Len(parts')]
                m == IF item.tag = "Running" THEN msg ELSE Unstarted
                added == MessageAdd(m, t.payload)
            IN  /\ t.time = taken'
                /\ parts' = IF m = Unstarted THEN <<t>> ELSE Append(parts, t)
                /\ added.tag = "Err" => item' = Some(added)
                /\ (m.state = "Incomplete" /\ IsStartPacket(t.payload)
                      /\ added.tag = "Err")
                     => (item'.tag = "Some" /\ item'.value.tag = "Err")
       /\ (item.tag = "Some" /\ item.value.tag = "Err")
            => (item' = Taken /\ taken' = taken)]_vars

\* A start packet of another id arrived while a message was Incomplete.
C34_Witness ==
    /\ Len(parts) >= 2 /\ IsStartPacket(LastPart.payload)
    /\ msg.state = "Incomplete" /\ msg.id # PacketOf(LastPart.payload).id
    /\ IsAddFault(item) /\ item.value.err.kind = "IdMismatch"

\* C35: when the transmissions run out while the message of the loop is
\* Incomplete, next returns None: no item, Ok or Err, is yielded for the
\* partial message, then or later.
C35_PartialMessageIsDropped ==
    [][/\ (item = Running /\ msg.state = "Incomplete" /\ taken' = taken)
            => (item' = None /\ exhausted' /\ msg' = msg)
       /\ item = None => (item' = Taken /\ previous' = None)
       /\ (item = Taken /\ previous = None) => item' = None]_vars

\* The store ended after two packets of a message still short of its
\* total_bytes.
C35_Witness ==
    /\ item = None /\ exhausted
    /\ msg.state = "Incomplete" /\ Len(msg.data) < msg.total_bytes
    /\ Len(parts) = 2 /\ taken = 2

\* C36: over the process calls that return Ok, the places of the named
\* cartridges in the configured order never go down, whatever calls come in
\* between: a call that returns Ok names the cartridge activated last or one
\* configured after it, and that cartridge is the one activated from then on.
C36_ActivatedPlacesNeverGoDown ==
    /\ ProcessedOk => (call.active <= Named /\ active = Named)
    /\ (call.op # "new" /\ ~ProcessedOk) => active = call.active

\* Cartridge 3 is activated after cartridge 2, cartridge 1 emptied before.
C36_Witness ==
    /\ ProcessedOk /\ call.active = 2 /\ Named = 3
    /\ call.before[1].emptied /\ ~call.before[2].emptied
    /\ efoy[2].emptied

\* C37: a process that returns Ok and names the cartridge at place k leaves
\* every cartridge after k as it was, and the number, the order, the names
\* and the capacities of all the cartridges as they were; so every
\* cartridge after the last one activated is still as add_cartridge made
\* it, with consumed 0 and not emptied.
C37_LaterCartridgesUntouched ==
    /\ ProcessedOk =>
          /\ Len(efoy) = Len(call.before)
          /\ \A i \in 1..Len(efoy) :
                /\ efoy[i].name = call.before[i].name
                /\ efoy[i].capacity = call.before[i].capacity
                /\ i > Named => efoy[i] = call.before[i]
    /\ \A i \in (active + 1)..Len(efoy) :
          efoy[i] = CartridgeNew(efoy[i].name, efoy[i].capacity)

\* The call emptied cartridge 1 and set the consumed of cartridge 2;
\* cartridge 3 has fuel and is as it was configured.
C37_Witness ==
    /\ ProcessedOk /\ Named = 2 /\ Len(efoy) = 3
    /\ ~call.before[1].emptied /\ efoy[1].emptied
    /\ efoy[2].consumed # call.before[2].consumed
    /\ efoy[3].capacity > 0 /\ efoy[3].consumed = 0 /\ ~efoy[3].emptied

\* C39: process never comes to the unreachable!() after its loop: when the
\* lookup finds the named cartridge and it is not emptied, the loop comes to
\* a cartridge of that name and returns Ok; otherwise process returns an
\* error before the loop.
C39_LoopFindsTheCartridge ==
    Processed =>
        /\ call.ret.tag # "Panic"
        /\ call.ret.tag = "Ok" <=>
              /\ IsSome(EfoyCartridge(call.before, call.name))
              /\ ~EfoyCartridge(call.before, call.name).value.emptied

\* The loop went through every cartridge and found the name at the last.
C39_Witness ==
    /\ ProcessedOk /\ Len(call.before) = 3 /\ Named = 3
    /\ efoy[1].emptied /\ efoy[2].emptied
    /\ efoy[3].consumed = call.amount

\* C21: no payload makes Packet::from_str, Message::add or next panic: a
\* call of next ends in an item or goes on with its loop.
C21_NeverPanics == item.tag # "Panic"

\* C25: calls of next come to an end.  Every step of a call pulls one more
\* transmission or ends the call with None, so a call that yields an item has
\* pulled a transmission no other item was yielded for, and there are no more
\* items than transmissions; and once a call has returned None, every call
\* after it returns None without pulling anything.
C25_NextTerminates ==
    [][/\ item.tag \in {"NotCalled", "Taken", "Running"} =>
            \/ taken' = taken + 1 /\ taken' <= MaxMessages
            \/ taken' = taken /\ item' = None
       /\ (item.tag # "Some" /\ item'.tag = "Some") => taken' = taken + 1
       /\ (item = Taken /\ previous = None) => (item' = None /\ taken' = taken)
       /\ item.tag \in {"None", "Some"} => (item' = Taken /\ taken' = taken)]_vars

\* None has been returned, taken by the caller, and returned again.
C25_Witness ==
    /\ previous = None /\ item = None
    /\ taken >= 1 /\ taken < MaxMessages

\* What the decoder made of the body the last iteration completed.
Decoded == HeartbeatNew(decoded.value, datetime.value)
IsDecodeFault(it) ==
    /\ it.tag = "Some" /\ it.value.tag = "Err"
    /\ it.value.err.kind = "HeartbeatFormat"

\* C29: a completed body the decoder rejects makes next return that one Err;
\* the call after it adds the first transmission it pulls (item is None when
\* it pulled nothing more) to an Unstarted message, so what follows the
\* rejected message is reassembled and decoded as usual.
C29_DecodeFaultIsYieldedAndNextGoesOn ==
    /\ (IsSome(decoded) /\ Decoded.tag = "Err") => item = Some(Decoded)
    /\ (IsDecodeFault(previous) /\ Len(parts) = 1 /\ item # None) =>
          LET fresh == MessageAdd(Unstarted, parts[1].payload)
          IN  /\ fresh.tag = "Err" => item = Some(fresh)
              /\ (fresh.tag = "Ok" /\ fresh.value.state = "Incomplete")
                    => (item = Running /\ msg = fresh.value)
              /\ (fresh.tag = "Ok" /\ fresh.value.state = "Complete")
                    => decoded = Some(fresh.value.data)

\* The first call returned a decode fault; the second reassembled the two
\* extended packets that followed and decoded them.
C29_Witness ==
    /\ IsDecodeFault(previous)
    /\ Len(parts) = 2 /\ IsExtended(parts[1].payload) /\ IsExtended(parts[2].payload)
    /\ YieldedOk

\* C30: under a filter that is not empty an Ok heartbeat next yields has a
\* version of the filter, and a completed message that decodes to another
\* version yields nothing: the loop goes on from an Unstarted message; with
\* no filter every heartbeat that decodes is yielded.
C30_VersionFilter ==
    /\ (YieldedOk /\ versions # {}) => item.value.value.version \in versions
    /\ (IsSome(decoded) /\ Decoded.tag = "Ok") =>
          IF versions = {} \/ Decoded.value.version \in versions
          THEN item = Some(Decoded)
          ELSE item = Running /\ msg = Unstarted

\* A heartbeat of a version outside the filter was skipped inside a call.
C30_Witness ==
    /\ versions # {}
    /\ IsSome(decoded) /\ Decoded.tag = "Ok" /\ Decoded.value.version \notin versions
    /\ Len(parts) = 2
    /\ item = Running /\ msg = Unstarted

\* ------------------------------------------------------ Status::new
StatusInit == MessageIdle /\ SbdIdle /\ EfoyIdle /\ StatusIdle

\* Status::new up to its loop: config.heartbeats() returns hs, or the Config
\* error when there are none; heartbeats.sort(); Timeseries::new gives each
\* Efoy id of the first heartbeat an Efoy of the configuration.
StatusNewStep(hs) ==
    /\ status = NotCalled
    /\ IF hs = <<>>
       THEN /\ status' = Err(ConfigError)
            /\ UNCHANGED <<heartbeats, efoys>>
       ELSE /\ heartbeats' \in SortOutcomes(hs)
            /\ efoys' = [i \in EfoyIds |-> ConfigEfoy]
            /\ status' = Running
    /\ UNCHANGED <<processed, fed>>
    /\ UNCHANGED <<msgVars, sbdVars, efoyVars>>

\* timeseries.process(&heartbeat)? for the next heartbeat.
TimeseriesProcessStep ==
    /\ status = Running
    /\ processed < Len(heartbeats)
    /\ LET done == ProcessEfoys(efoys, <<>>, heartbeats[processed + 1], 1)
       IN  /\ efoys' = done.efoys
           /\ fed' = fed \o done.calls
           /\ IF done.ret.tag = "Ok"
              THEN processed' = processed + 1 /\ UNCHANGED status
              ELSE status' = done.ret /\ UNCHANGED processed
    /\ UNCHANGED heartbeats
    /\ UNCHANGED <<msgVars, sbdVars, efoyVars>>

\* After the loop: the Status of the last heartbeat.
StatusNewReturn ==
    /\ status = Running
    /\ processed = Len(heartbeats)
    /\ status' = Ok([last_heartbeat_received |-> heartbeats[Len(heartbeats)].datetime])
    /\ UNCHANGED <<heartbeats, efoys, processed, fed>>
    /\ UNCHANGED <<msgVars, sbdVars, efoyVars>>

StatusNext ==
    \/ \E hs \in HeartbeatLists : StatusNewStep(hs)
    \/ TimeseriesProcessStep
    \/ StatusNewReturn

SpecStatus == StatusInit /\ [][StatusNext]_vars

\* ---------------------------------------- claims on the status replay
\* C26: every comparison of two heartbeats goes by datetime alone: ==, the
\* Ord::cmp that sort asks for, and the partial_cmp behind <, <=, >, >=.
C26_ComparedByDatetime ==
    \A i, j \in 1..Len(heartbeats) :
        LET a == heartbeats[i]
            b == heartbeats[j]
        IN  /\ HeartbeatEq(a, b) = (a.datetime = b.datetime)
            /\ HeartbeatCmp(a, b) = Cmp(a.datetime, b.datetime)
            /\ HeartbeatPartialCmp(a, b) = Some(Cmp(a.datetime, b.datetime))

\* C27: each Efoy is fed the readings of the heartbeats in non-decreasing
\* order of heartbeat datetime.
C27_FedInDatetimeOrder ==
    \A i, j \in 1..Len(fed) :
        (i < j /\ fed[i].efoy = fed[j].efoy) => fed[i].datetime <= fed[j].datetime

\* C28: a process call of the replay that returns a fault is the last one:
\* no Efoy is fed after it, and Status::new returns that fault; a Status is
\* returned only when no call faulted.
C28_ReplayStopsAtFirstFault ==
    /\ \A k \in 1..Len(fed) :
          fed[k].ret.tag # "Ok" => (k = Len(fed) /\ status = fed[k].ret)
    /\ status.tag = "Ok" =>
          /\ processed = Len(heartbeats)
          /\ Len(fed) = 2 * Len(heartbeats)

\* Efoy 1 faulted on the first heartbeat: Efoy 2 was not fed its reading, and
\* the second heartbeat was not fed at all.
C28_Witness ==
    /\ status.tag = "Err" /\ status.err.kind = "CartridgeName"
    /\ Len(heartbeats) = 2 /\ processed = 0
    /\ Len(fed) = 1 /\ fed[1].efoy = 1
    /\ efoys[2] = ConfigEfoy

====
